---------------------------- MODULE Spec2Model ----------------------------
(***************************************************************************)
(* Control surface of the zero-stomp pedal (src/circuitpython/zero_stomp.py)*)
(* as a state machine: paged knobs with anti-jump tracking, the stomp       *)
(* switch with its tap counter, and the dry/wet mix of the codec.           *)
(*                                                                          *)
(* Numbers.  Normalised control values (floats in [0,1] in the source) are  *)
(* fixed-point integers in units of 1/Scale, so 1.0 is Scale and the knob   *)
(* threshold 0.01 is Threshold.  A mapped parameter is kept multiplied by   *)
(* Scale, which makes map_value exact.  Durations are in tenths of a second.*)
(***************************************************************************)
EXTENDS Integers, Sequences, FiniteSets, TLC

(* ------------------------------ constants ------------------------------ *)
NUM_POTS == 3
Scale == 200
Threshold == 2
SWITCH_SHORT_DURATION == 4
OUTPUT_VOLUME_MIN == -21
DAC_VOLUME_MIN == -127
DUTY_MAX == 65535
None == -1
\* apps/tuner.py: the gate thresholds in thousandths, the cutoff in hundredths,
\* and the full scale of a 16-bit sample
LEVEL_ATTACK == 10
LEVEL_RELEASE == 2
FREQ_CUTOFF == 25
FULL_SCALE == 32768
\* zero_stomp.DISPLAY_WIDTH; ln 2 in units of 1/100000, the factor between
\* math.log(x) and math.log(x, 2); the number of those units in a cent
DISPLAY_WIDTH == 128
LN2 == 69315
CentUnit == 100000

(* ------------------------------- bounds -------------------------------- *)
MaxKnobs == 5
MaxLevel == 4
MaxStompCount == 2
MaxPrograms == 2
MaxInstalled == 3
MaxRequests == 4
MaxBins == 5
MaxMagnitude == 3
MaxNorm == 4
MaxNote == 127
MaxTargets == 3
LowNotes == 12

\* the readings and bound values a single knob is exercised with (SpecKnob)
Levels == 0..MaxLevel
\* the ranges a knob is bound with: plain, offset and reversed
Ranges == { <<0, 1>>, <<1, 3>>, <<2, -1>> }
\* lengths of the interval a switch edge ends: just short and just long
Durations == {SWITCH_SHORT_DURATION - 1, SWITCH_SHORT_DURATION}
\* values an application assigns to mix: inside and above the range
MixInputs == {0, Scale \div 2, Scale + Scale \div 2}

VARIABLES knobs, page, readings, switch, stomp_count, stomp_led, mix, codec,
          programs, reload, dispatch, seeking,
          variant, stored, settings, phase, next_code, history,
          controls_hidden, display, fault, gate, level, spectrum, data, pitch,
          norm, binding

\* the state of one ZeroStomp object and its knobs
deviceVars == <<knobs, page, readings, switch, stomp_count, stomp_led, mix,
                codec, reload, dispatch, seeking>>

\* the state of the program loader: the settings file, the settings cache of
\* the running interpreter, and the programs launched since power-up
loaderVars == <<variant, stored, settings, phase, next_code, history>>

\* the state of the tuner program (apps/tuner.py): the noise gate, what the
\* note label and the deviation bar show, whether the loop ended in an
\* exception, and of the last tick: what the gate did, the level, the
\* spectrogram and the array the centre index was taken from; pitch follows
\* lines 133 to 148 alone, from a frequency to the label and the bar
tunerVars == <<controls_hidden, display, fault, gate, level, spectrum, data,
               pitch>>

\* the helper functions followed alone: a map_value / unmap_value round
\* trip, and a call of set_attribute
helperVars == <<norm, binding>>

\* what lies outside the ZeroStomp object
appVars == <<loaderVars, tunerVars, helperVars>>

vars == <<knobs, page, readings, switch, stomp_count, stomp_led, mix, codec,
          programs, reload, dispatch, seeking,
          variant, stored, settings, phase, next_code, history,
          controls_hidden, display, fault, gate, level, spectrum, data, pitch,
          norm, binding>>

(* ------------------------------- helpers ------------------------------- *)
Min(a, b) == IF a < b THEN a ELSE b

Max(a, b) == IF a > b THEN a ELSE b

Abs(a) == IF a < 0 THEN -a ELSE a

\* float division at the resolution of the fixed-point units
FloorDiv(a, b) == IF b > 0 THEN a \div b ELSE (-a) \div (-b)

\* constrain(value, min_value, max_value)
constrain(value, min_value, max_value) == Min(Max(value, min_value), max_value)

\* map_value that leaves out the start of the range
map_value_without_offset(value, min_value, max_value) ==
    constrain(value, 0, Scale) * (max_value - min_value)

\* map_value: value in 1/Scale units, the result is the parameter times Scale
map_value(value, min_value, max_value) ==
    constrain(value, 0, Scale) * (max_value - min_value) + min_value * Scale

\* unmap_value: value is a parameter times Scale, the result is in 1/Scale units
unmap_value(value, min_value, max_value) ==
    constrain(FloorDiv(value - min_value * Scale, max_value - min_value), 0, Scale)

(* -------------------------------- Knob --------------------------------- *)
\* set_value with a callback that passes the knob value on unmapped
set_value_unmapped(knob, value) ==
    [knob EXCEPT !.value = value,
                 !.param = value,
                 !.calls = Append(@, value)]

\* Knob._set_value with Knob._do_callback: the callback assign_knob binds is
\* set_attribute(o, name, map_value(value, min_value, max_value)); calls logs
\* the arguments the target setter received during the current operation.
set_value(knob, value) ==
    [knob EXCEPT !.value = value,
                 !.param = map_value(value, knob.lo, knob.hi),
                 !.calls = Append(@, map_value(value, knob.lo, knob.hi))]

\* reset that stores the value without running the callback
reset_without_callback(knob, value) ==
    LET k == [knob EXCEPT !.previous = None]
    IN  IF value # None THEN [k EXCEPT !.value = value] ELSE k

\* Knob.reset(value = None)
reset(knob, value) ==
    LET k == [knob EXCEPT !.previous = None]
    IN  IF value # None THEN set_value(k, value) ELSE k

\* value_setter that stores the first reading after a reset
value_setter_snap(knob, value) ==
    IF knob.previous = None
      THEN [set_value(knob, value) EXCEPT !.previous = value]
      ELSE IF knob.previous = knob.value
        THEN IF Abs(value - knob.value) >= Threshold
               THEN [set_value(knob, value) EXCEPT !.previous = value]
               ELSE knob
        ELSE LET k1 == IF knob.previous < knob.value /\ value >= knob.value
                         THEN set_value(knob, value) ELSE knob
                 k2 == IF k1.previous > k1.value /\ value <= k1.value
                         THEN set_value(k1, value) ELSE k1
             IN  [k2 EXCEPT !.previous = value]

\* value_setter that asks for more than the threshold
value_setter_gt(knob, value) ==
    IF knob.previous = None
      THEN [knob EXCEPT !.previous = value]
      ELSE IF knob.previous = knob.value
        THEN IF Abs(value - knob.value) > Threshold
               THEN [set_value(knob, value) EXCEPT !.previous = value]
               ELSE knob
        ELSE LET k1 == IF knob.previous < knob.value /\ value >= knob.value
                         THEN set_value(knob, value) ELSE knob
                 k2 == IF k1.previous > k1.value /\ value <= k1.value
                         THEN set_value(k1, value) ELSE k1
             IN  [k2 EXCEPT !.previous = value]

\* value_setter whose crossing test compares the marker with the reading
value_setter_marker_against_reading(knob, value) ==
    IF knob.previous = None
      THEN [knob EXCEPT !.previous = value]
      ELSE IF knob.previous = knob.value
        THEN IF Abs(value - knob.value) >= Threshold
               THEN [set_value(knob, value) EXCEPT !.previous = value]
               ELSE knob
        ELSE LET k1 == IF knob.previous < value /\ value >= knob.value
                         THEN set_value(knob, value) ELSE knob
                 k2 == IF k1.previous > value /\ value <= k1.value
                         THEN set_value(k1, value) ELSE k1
             IN  [k2 EXCEPT !.previous = value]

\* value_setter that records every reading as the marker
value_setter_always_marks(knob, value) ==
    IF knob.previous = None
      THEN [knob EXCEPT !.previous = value]
      ELSE IF knob.previous = knob.value
        THEN IF Abs(value - knob.value) >= Threshold
               THEN [set_value(knob, value) EXCEPT !.previous = value]
               ELSE [knob EXCEPT !.previous = value]
        ELSE LET k1 == IF knob.previous < knob.value /\ value >= knob.value
                         THEN set_value(knob, value) ELSE knob
                 k2 == IF k1.previous > k1.value /\ value <= k1.value
                         THEN set_value(k1, value) ELSE k1
             IN  [k2 EXCEPT !.previous = value]

\* value_setter whose commit in the tracking branch leaves the marker behind
value_setter_marker_left_behind(knob, value) ==
    IF knob.previous = None
      THEN [knob EXCEPT !.previous = value]
      ELSE IF knob.previous = knob.value
        THEN IF Abs(value - knob.value) >= Threshold
               THEN set_value(knob, value)
               ELSE knob
        ELSE LET k1 == IF knob.previous < knob.value /\ value >= knob.value
                         THEN set_value(knob, value) ELSE knob
                 k2 == IF k1.previous > k1.value /\ value <= k1.value
                         THEN set_value(k1, value) ELSE k1
             IN  [k2 EXCEPT !.previous = value]

\* Knob.value setter
value_setter(knob, value) ==
    IF knob.previous = None
      THEN [knob EXCEPT !.previous = value]
      ELSE IF knob.previous = knob.value
        THEN IF Abs(value - knob.value) >= Threshold
               THEN [set_value(knob, value) EXCEPT !.previous = value]
               ELSE knob
        ELSE LET k1 == IF knob.previous < knob.value /\ value >= knob.value
                         THEN set_value(knob, value) ELSE knob
                 k2 == IF k1.previous > k1.value /\ value <= k1.value
                         THEN set_value(k1, value) ELSE k1
             IN  [k2 EXCEPT !.previous = value]

\* Knob.__init__ as assign_knob calls it: the target holds param, the knob's
\* value is set through reset(value), which runs the callback once
new_knob(value, lo, hi, param) ==
    reset([value |-> value, previous |-> None, hidden |-> FALSE,
           lo |-> lo, hi |-> hi, param |-> param, calls |-> <<>>], value)

\* the setter log of every knob is emptied when an operation starts
clear_calls(ks) == [i \in DOMAIN ks |-> [ks[i] EXCEPT !.calls = <<>>]]

(* ------------------------------ ZeroStomp ------------------------------ *)
\* page_count that opens a page as soon as the last one is full
page_count_without_floor(n) == n \div NUM_POTS + 1

\* ZeroStomp.page_count for a knob list of length n
page_count(n) == Max(n - 1, 0) \div NUM_POTS + 1

\* ZeroStomp.page_knob_count for a knob list of length n on page p
page_knob_count(n, p) == Min(Max(n - p * NUM_POTS, 0), NUM_POTS)

\* ZeroStomp.bypassed
bypassed(sw) == sw.value

\* update_mix that mutes the dry path to its floor in bypass
update_mix_floor(cd, m, byp) ==
    [dac_mute |-> IF cd.dac_mute # byp THEN byp ELSE cd.dac_mute,
     mic_output_volume |->
         IF byp THEN OUTPUT_VOLUME_MIN * Scale
                ELSE map_value(Scale - m, OUTPUT_VOLUME_MIN, 0),
     dac_volume |-> map_value(m, DAC_VOLUME_MIN, 0),
     mic_output |-> IF ~byp /\ m >= Scale THEN FALSE ELSE TRUE]

\* update_mix that closes the dry path at full mix whatever the bypass state
update_mix_bleed_off_at_full_mix(cd, m, byp) ==
    [dac_mute |-> IF cd.dac_mute # byp THEN byp ELSE cd.dac_mute,
     mic_output_volume |->
         IF byp THEN 0 ELSE map_value(Scale - m, OUTPUT_VOLUME_MIN, 0),
     dac_volume |-> map_value(m, DAC_VOLUME_MIN, 0),
     mic_output |-> IF m >= Scale THEN FALSE ELSE TRUE]

\* update_mix that leaves the DAC mute as it finds it
update_mix_mute_untouched(cd, m, byp) ==
    [dac_mute |-> cd.dac_mute,
     mic_output_volume |->
         IF byp THEN 0 ELSE map_value(Scale - m, OUTPUT_VOLUME_MIN, 0),
     dac_volume |-> map_value(m, DAC_VOLUME_MIN, 0),
     mic_output |-> IF ~byp /\ m >= Scale THEN FALSE ELSE TRUE]

\* ZeroStomp._update_mix
update_mix(cd, m, byp) ==
    [dac_mute |-> IF cd.dac_mute # byp THEN byp ELSE cd.dac_mute,
     mic_output_volume |->
         IF byp THEN 0 ELSE map_value(Scale - m, OUTPUT_VOLUME_MIN, 0),
     dac_volume |-> map_value(m, DAC_VOLUME_MIN, 0),
     mic_output |-> IF ~byp /\ m >= Scale THEN FALSE ELSE TRUE]

\* ZeroStomp.next_page: the new page index
next_page_index(n, p) == (p + 1) % page_count(n)

\* next_page_knobs that resets the knobs of the new page only
next_page_knobs_new_page_only(ks, p) ==
    [i \in DOMAIN ks |->
        LET k == [ks[i] EXCEPT !.hidden = ((i - 1) \div NUM_POTS # p)]
        IN  IF (i - 1) \div NUM_POTS = p THEN reset(k, None) ELSE k]

\* next_page_knobs that takes the position in the list for the index
next_page_knobs_off_by_one(ks, p) ==
    [i \in DOMAIN ks |->
        reset([ks[i] EXCEPT !.hidden = (i \div NUM_POTS # p)], None)]

\* ZeroStomp.next_page: visibility by page membership, reset() of every knob
next_page_knobs(ks, p) ==
    [i \in DOMAIN ks |->
        reset([ks[i] EXCEPT !.hidden = ((i - 1) \div NUM_POTS # p)], None)]

\* add_knob_hidden with the page count taken before the knob is appended
add_knob_hidden_before_append(n, p) == page_count(n - 1) - 1 # p

\* ZeroStomp.add_knob: where the appended knob starts hidden
add_knob_hidden(n, p) == page_count(n) - 1 # p

\* is_short that counts an interval of exactly SWITCH_SHORT_DURATION as short
is_short_inclusive(sw) == sw.last_duration <= SWITCH_SHORT_DURATION

\* update(): last_duration < SWITCH_SHORT_DURATION
is_short(sw) == sw.last_duration < SWITCH_SHORT_DURATION

\* next_stomp_count that starts again from 0 instead of going above 1
next_stomp_count_wraps(sw, count) ==
    IF sw.rose \/ sw.fell
      THEN IF is_short(sw) /\ count < 1 THEN count + 1 ELSE 0
      ELSE count

\* switch_edge that reports the rising edge only
switch_edge_rose_only(sw) == sw.rose

\* update(): self._stomp_switch.rose or self._stomp_switch.fell
switch_edge(sw) == sw.rose \/ sw.fell

\* update(): the tap counter after a tick that saw the switch as sw
next_stomp_count(sw, count) ==
    IF switch_edge(sw)
      THEN IF is_short(sw) THEN count + 1 ELSE 0
      ELSE count

\* load_requested that is content with a single installed program
load_requested_one_program(count, n) == count > 1 /\ n > 0

\* update(): self._stomp_count > 1 and len(get_programs()) > 1
load_requested(count, n) == count > 1 /\ n > 1

\* update_led that writes the LED whoever controls it
update_led_whoever_controls(led, byp) ==
    [led EXCEPT !.duty_cycle = IF byp THEN 0 ELSE DUTY_MAX]

\* update(): the status LED follows the bypass state while _stomp_led_control
update_led(led, byp) ==
    IF led.control
      THEN [led EXCEPT !.duty_cycle = IF byp THEN 0 ELSE DUTY_MAX]
      ELSE led

\* ZeroStomp.led setter: value in 1/Scale units; int() of a value that is not
\* negative is its whole part
led_setter(led, value) ==
    [control |-> FALSE, duty_cycle |-> map_value(value, 0, DUTY_MAX) \div Scale]

\* the values the applications assign to led, some of them outside [0, 1]
LedInputs == {0 - Scale \div 2, 0, Scale \div 4, Scale \div 2, Scale, Scale + Scale \div 2}

\* adafruit_debouncer.Debouncer.update as update() sees it: on an edge the
\* value flips and last_duration is the length of the interval that ended
debouncer_update(sw, edge, dur) ==
    IF edge
      THEN [value |-> ~sw.value, rose |-> ~sw.value, fell |-> sw.value,
            last_duration |-> dur]
      ELSE [sw EXCEPT !.rose = FALSE, !.fell = FALSE]

\* deliver that feeds channel i to the i-th knob of every page
deliver_every_page(ks, p, r) ==
    [j \in DOMAIN ks |->
        LET i == (j - 1) % NUM_POTS
        IN  IF r[i] # None THEN value_setter(ks[j], r[i]) ELSE ks[j]]

\* the knob loop of ZeroStomp.update: channel i feeds knob i + page * NUM_POTS
\* for i in range(page_knob_count)
deliver(ks, p, r) ==
    [j \in DOMAIN ks |->
        LET i == (j - 1) - p * NUM_POTS
        IN  IF i >= 0 /\ i < page_knob_count(Len(ks), p)
              THEN value_setter(ks[j], r[i])
              ELSE ks[j]]

\* the positions the first pot is turned between while the device is exercised
\* (its end stops); the other pots rest at mid-travel
PotStops == {0, Scale}

PotRest == Scale \div 2

\* ZeroStomp.knob_value for the channels update() reads, None for the others
Readings(n, p) ==
    { [i \in 0..(NUM_POTS - 1) |->
          IF i >= page_knob_count(n, p) THEN None
          ELSE IF i = 0 THEN v ELSE PotRest] : v \in PotStops }

NoReadings == [i \in 0..(NUM_POTS - 1) |-> None]

\* the binding an application gives its n-th knob (n counted from 0): a range
\* and the value of the target attribute at bind time, times Scale; the
\* attribute of every second target lies above its range
KnobConfig(n) ==
    IF n % 2 = 0 THEN [lo |-> 0, hi |-> 1, x |-> 0]
                 ELSE [lo |-> 1, hi |-> 3, x |-> 4 * Scale]

(* --------------------------- program loader --------------------------- *)
\* A program is its position in get_programs() (the os.listdir order of the
\* ".py" files of /apps), counted from 0.  A stored setting is a file name:
\* name is the position of the program it names (at or above the number of
\* installed programs: a program that is not installed), py whether the
\* stored text ends in ".py".  NoSetting is a missing or unreadable file, a
\* missing key or an empty string.
NoSetting == [name |-> None, py |-> FALSE]

Settings(n) ==
    {NoSetting} \cup [name : 0..n, py : BOOLEAN]

\* get_settings / get_setting("global", "program"): the cache of this
\* interpreter run, read from the file on first use
get_setting(mem, file) == IF mem.loaded THEN mem.program ELSE file

\* update_setting(program, "global", "program") changes the cache only
update_setting(mem, value) == [loaded |-> TRUE, program |-> value]

\* the cache of an interpreter that has just started
Unloaded == [loaded |-> FALSE, program |-> NoSetting]

\* get_default_program that names the first program even when none is installed
get_default_program_always_first(n) == 0

\* get_default_program with n programs installed
get_default_program(n) == IF n > 0 THEN 0 ELSE None

\* program in get_programs(): every installed file name ends in ".py"
in_programs(s, n) == s.name # None /\ s.py /\ s.name < n

\* get_current_program
get_current_program(s, n) ==
    IF s.name = None \/ ~in_programs(s, n)
      THEN get_default_program(n)
      ELSE s.name

\* get_next_program that does not wrap after the last program
get_next_program_without_wrap(s, n) ==
    LET program == get_current_program(s, n)
    IN  IF program = None THEN None ELSE program + 1

\* get_next_program
get_next_program(s, n) ==
    LET program == get_current_program(s, n)
    IN  IF program = None THEN None ELSE (program + 1) % n

\* src/code.py: the stored script with ".py" appended when it lacks it
script_in_scripts(s, n) == s.name # None /\ s.name < n

\* the program that is running: the last one launched
running == IF history = <<>> THEN None ELSE history[Len(history)]

\* the loader is not followed
LoaderIdle ==
    /\ variant = "circuitpython"
    /\ stored = NoSetting
    /\ settings = Unloaded
    /\ phase = "app"
    /\ next_code = None
    /\ history = <<>>

\* what the label and the bar show before the first detection
NoDisplay == [num |-> 0, den |-> 0]

\* no frequency is being displayed
NoPitch == [stage |-> "none"]

\* the tuner is not followed
TunerIdle ==
    /\ controls_hidden = TRUE
    /\ display = NoDisplay
    /\ fault = FALSE
    /\ gate = "none"
    /\ level = 0
    /\ spectrum = <<>>
    /\ data = <<>>
    /\ pitch = NoPitch

\* no conversion is followed
NormIdle == norm = [stage |-> "none"]

\* no call of set_attribute is followed
BindingIdle == binding = [stage |-> "none"]

HelpersIdle == NormIdle /\ BindingIdle

\* only the ZeroStomp object and its knobs are followed
AppIdle == LoaderIdle /\ TunerIdle /\ HelpersIdle

\* the ZeroStomp object is not followed
DeviceIdle ==
    /\ knobs = <<>>
    /\ page = 0
    /\ readings = [i \in 0..(NUM_POTS - 1) |-> None]
    /\ switch = [value |-> TRUE, rose |-> FALSE, fell |-> FALSE, last_duration |-> 0]
    /\ codec = [dac_mute |-> TRUE, mic_output_volume |-> 0, dac_volume |-> 0,
                mic_output |-> TRUE]
    /\ stomp_led = [control |-> TRUE, duty_cycle |-> 0]
    /\ stomp_count = 0
    /\ mix = 0
    /\ reload = FALSE
    /\ dispatch = "none"
    /\ seeking = FALSE

(* -------------------------------- tuner -------------------------------- *)
\* the sum and the extremes of a non-empty array
RECURSIVE Sum(_)
Sum(a) == IF a = <<>> THEN 0 ELSE a[1] + Sum(Tail(a))

ArrayMax(a) == CHOOSE x \in {a[k] : k \in DOMAIN a} : \A k \in DOMAIN a : a[k] <= x

ArrayMin(a) == CHOOSE x \in {a[k] : k \in DOMAIN a} : \A k \in DOMAIN a : x <= a[k]

\* the value of level 1.0 for a frame: levels are kept multiplied by the
\* frame length times FULL_SCALE, which makes the mean exact
LevelUnit(frame) == Len(frame) * FULL_SCALE

\* level = min(max((np.max(data) - np.mean(data)) / 32768, 0.0), 1.0)
frame_level(frame) ==
    constrain(ArrayMax(frame) * Len(frame) - Sum(frame), 0, LevelUnit(frame))

\* level > LEVEL_ATTACK and level < LEVEL_RELEASE, for a level in units of
\* 1 / unit
above_attack(l, unit) == 1000 * l > LEVEL_ATTACK * unit

below_release(l, unit) == 1000 * l < LEVEL_RELEASE * unit

\* gate_hidden with a single threshold: an open gate closes at or below attack
gate_hidden_single_threshold(hidden, l, unit) ==
    IF hidden /\ above_attack(l, unit) THEN FALSE
    ELSE IF ~hidden /\ ~above_attack(l, unit) THEN TRUE
    ELSE hidden

\* the noise gate: controls.hidden after the if / elif on the level
gate_hidden(hidden, l, unit) ==
    IF hidden /\ above_attack(l, unit) THEN FALSE
    ELSE IF ~hidden /\ below_release(l, unit) THEN TRUE
    ELSE hidden

\* gate_continue that lets every tick go on to the detection
gate_continue_never(hidden) == FALSE

\* if controls.hidden: continue
gate_continue(hidden) == hidden

\* threshold_where that keeps the bins below the threshold
threshold_where_below(a) ==
    LET hi == ArrayMax(a)
        lo == ArrayMin(a)
    IN  [k \in DOMAIN a |->
            IF 100 * a[k] < (hi - lo) * FREQ_CUTOFF + 100 * lo THEN a[k] ELSE 0]

\* threshold = (max - min) * FREQ_CUTOFF + min; np.where(data > threshold,
\* data, 0.0)
threshold_where(a) ==
    LET hi == ArrayMax(a)
        lo == ArrayMin(a)
    IN  [k \in DOMAIN a |->
            IF 100 * a[k] > (hi - lo) * FREQ_CUTOFF + 100 * lo THEN a[k] ELSE 0]

\* the scan for areas: an area is <<i, i, 0>> when it opens, and every
\* non-zero bin adds 1 to its second entry and the bin to its third; indices
\* count from 0 as in the source, a[i + 1] is data[i]
RECURSIVE scan_areas(_, _, _, _)
scan_areas(a, i, area, areas) ==
    IF i = Len(a)
      THEN IF area # <<>> THEN Append(areas, area) ELSE areas
      ELSE IF a[i + 1] > 0
        THEN LET opened == IF area = <<>> THEN <<i, i, 0>> ELSE area
             IN  scan_areas(a, i + 1,
                            <<opened[1], opened[2] + 1, opened[3] + a[i + 1]>>,
                            areas)
        ELSE IF area # <<>>
          THEN scan_areas(a, i + 1, <<>>, Append(areas, area))
          ELSE scan_areas(a, i + 1, <<>>, areas)

find_areas(a) == scan_areas(a, 0, <<>>, <<>>)

\* sorted(areas, key=lambda x: x[1]): stable, ascending in the second entry
RECURSIVE insert_area(_, _)
insert_area(sorted, area) ==
    IF sorted = <<>> THEN <<area>>
    ELSE IF sorted[Len(sorted)][2] <= area[2] THEN Append(sorted, area)
    ELSE Append(insert_area(SubSeq(sorted, 1, Len(sorted) - 1), area),
                sorted[Len(sorted)])

RECURSIVE sort_areas(_)
sort_areas(areas) ==
    IF areas = <<>> THEN <<>>
    ELSE insert_area(sort_areas(SubSeq(areas, 1, Len(areas) - 1)),
                     areas[Len(areas)])

\* for i in range(1, len(areas)): for j in range(areas[i][0], areas[i][1]):
\* data[j] = 0.0
clear_areas(a, areas) ==
    [k \in DOMAIN a |->
        IF \E i \in 2..Len(areas) : areas[i][1] <= k - 1 /\ k - 1 < areas[i][2]
          THEN 0 ELSE a[k]]

\* "Only keep largest area of values"
keep_area(a) == clear_areas(a, sort_areas(find_areas(a)))

\* the spectrogram after the threshold and the clearing of areas
reduce(a) == keep_area(threshold_where(a))

\* index = np.sum(data * dist) / np.sum(data), as numerator and denominator
centre(a) == [num |-> Sum([k \in DOMAIN a |-> a[k] * (k - 1)]), den |-> Sum(a)]

\* the arrays of n bins with magnitudes up to m
Spectra(n, m) == [1..n -> 0..m]

\* the spectrograms the tuner is exercised with: flat ones, and ones with a
\* peak at bin k and a lower bin at j
TunerSpectra ==
    { [i \in 1..MaxBins |-> c] : c \in {0, 1} } \cup
    { [i \in 1..MaxBins |-> IF i = k THEN MaxMagnitude ELSE IF i = j THEN 1 ELSE 0] :
        k \in 1..MaxBins, j \in 1..MaxBins }

\* the frames the tuner is exercised with: silence, uniform frames, and
\* frames whose level lies below, between and above the gate thresholds
Frames == { <<0, 0>>, <<400, 400>>, <<0, 100>>, <<0, 400>>, <<0, 800>> }

(* ----------------------- note, cents and bar --------------------------- *)
\* A frequency f is held as its pitch p = 1200 * log2(f / 440), in cents
\* above A4 (negative below), so that 12 * (math.log(f, 2) - LOG2_A4) is
\* p / 100, math.log(f / t, 2) is the difference of the two pitches over 1200,
\* and math.log(f / t), the natural logarithm, is ln 2 times that.  Cents are
\* held in units of 1/100000 (CentUnit).
NOTES ==
    << "A", "A#/Bb", "B", "C", "C#/Db", "D", "D#/Eb", "E", "F", "F#/Gb", "G",
       "G#/Ab" >>

\* round(a / b) for b > 0: the nearest integer.  On a tie round() takes the
\* even neighbour, but the float expression it is given reaches a tie only up
\* to its rounding error: both neighbours are outcomes.
round(a, b) ==
    LET q == a \div b
        r == a % b
    IN  IF 2 * r < b THEN {q} ELSE IF 2 * r > b THEN {q + 1} ELSE {q, q + 1}

\* notenum = round(12 * (math.log(frequency, 2) - LOG2_A4) + 69)
notenum(p) == round(p + 69 * 100, 100)

\* note_octave that starts the octave at A
note_octave_from_a(n) == (n - 21) \div 12

\* the name and the octave "{:s}{:d}".format puts into notename
note_name(n) == NOTES[((n - 21) % 12) + 1]

note_octave(n) == (n - 12) \div 12

\* target_frequency = math.pow(2, (notenum - 69) / 12) * 440, as a pitch
target_frequency(n) == 100 * (n - 69)

\* cents = 1200 * math.log(frequency / target_frequency), in 1/CentUnit
cents(p, n) == LN2 * (p - target_frequency(n))

\* cents_rect.width
cents_rect_width(c) ==
    LET num == Abs(c) * DISPLAY_WIDTH
        den == 25 * 2 * CentUnit
    IN  IF num < den THEN 1 ELSE Min(num \div den, DISPLAY_WIDTH \div 2)

\* cents_rect_x that puts the left edge at the centre whatever the sign
cents_rect_x_always_centre(c, width) == DISPLAY_WIDTH \div 2

\* cents_rect.x
cents_rect_x(c, width) ==
    IF c >= 0 THEN DISPLAY_WIDTH \div 2 ELSE DISPLAY_WIDTH \div 2 - width

\* the pitches the display is exercised with: every whole cent from half a
\* semitone below the note LowNotes under MIDI note 0 to half a semitone
\* above MIDI note MaxNote
PitchInputs == (100 * (0 - LowNotes - 69) - 50)..(100 * (MaxNote - 69) + 50)

(* ---------------------------- set_attribute ---------------------------- *)
\* A target is [has, attr]: has is hasattr(item, name), attr the value of
\* that attribute (None without it).  An argument is [is_list, items]: a list
\* or tuple of targets, or a single target.
Target(has) == [has |-> has, attr |-> IF has THEN 0 ELSE None]

\* set_attribute: the group it works on
group_of(arg) == IF arg.is_list THEN arg.items ELSE << arg.items >>

\* the value target k of n (counted from 1) is given: value + offset *
\* (i - (len(items) - 1) / 2) with i = k - 1 for a float value and a positive
\* offset; the offsets of the model are even, so that the half is whole
attribute_value(k, n, value, is_float, offset) ==
    IF is_float /\ offset > 0
      THEN value + (offset * (2 * (k - 1) - (n - 1))) \div 2
      ELSE value

\* set_attribute that gives up at the first target without the attribute
set_attribute_until_missing(arg, value, is_float, offset) ==
    LET items == group_of(arg)
        ok(k) == \A j \in 1..k : items[j].has
    IN  [k \in DOMAIN items |->
            IF ok(k)
              THEN [items[k] EXCEPT !.attr =
                       attribute_value(k, Len(items), value, is_float, offset)]
              ELSE items[k]]

\* set_attribute(items, name, value, offset): the targets after the call
set_attribute(arg, value, is_float, offset) ==
    LET items == group_of(arg)
    IN  [k \in DOMAIN items |->
            IF items[k].has
              THEN [items[k] EXCEPT !.attr =
                       attribute_value(k, Len(items), value, is_float, offset)]
              ELSE items[k]]

\* the lists of at most n targets
RECURSIVE TargetLists(_)
TargetLists(n) ==
    IF n = 0 THEN { <<>> }
    ELSE TargetLists(n - 1) \cup
         { Append(l, Target(has)) : l \in { m \in TargetLists(n - 1) : Len(m) = n - 1 },
                                    has \in BOOLEAN }

\* the arguments set_attribute is exercised with: lists of up to MaxTargets
\* targets and single targets
BindingArgs ==
    { [is_list |-> TRUE, items |-> l] : l \in TargetLists(MaxTargets) } \cup
    { [is_list |-> FALSE, items |-> Target(has)] : has \in BOOLEAN }

(* -------------------------------- Init --------------------------------- *)
\* the codec after ZeroStomp.__init__, which ends with self.mix = 0.0
InitCodec(byp) ==
    update_mix([dac_mute |-> TRUE, mic_output_volume |-> 0, dac_volume |-> 0,
                mic_output |-> TRUE], 0, byp)

\* the state ZeroStomp.__init__ leaves, with the switch at v
InitDevice(v) ==
    /\ knobs = <<>>
    /\ page = 0
    /\ readings = NoReadings
    /\ switch = [value |-> v, rose |-> FALSE, fell |-> FALSE, last_duration |-> 0]
    /\ codec = InitCodec(v)
    /\ stomp_led = [control |-> TRUE, duty_cycle |-> 0]
    /\ stomp_count = 0
    /\ mix = 0
    /\ reload = FALSE
    /\ dispatch = "none"
    /\ seeking = FALSE

Init ==
    /\ \E v \in BOOLEAN : InitDevice(v)
    /\ programs \in 0..MaxPrograms
    /\ AppIdle

(* ------------------------------- actions ------------------------------- *)
\* ZeroStomp.assign_knob(title, o, name, min_value, max_value) through
\* ZeroStomp.add_knob, with getattr(o, name) = cfg.x / Scale
assign_knob(cfg) ==
    /\ ~reload
    /\ Len(knobs) < MaxKnobs
    /\ LET knob == new_knob(unmap_value(cfg.x, cfg.lo, cfg.hi), cfg.lo, cfg.hi, cfg.x)
           ks == Append(clear_calls(knobs), knob)
       IN  knobs' = [ks EXCEPT ![Len(ks)].hidden = add_knob_hidden(Len(ks), page)]
    /\ readings' = NoReadings
    /\ dispatch' = "none"
    /\ UNCHANGED <<page, switch, stomp_count, stomp_led, mix, codec, programs,
                   reload, seeking, appVars>>

\* ZeroStomp.mix setter
set_mix(value) ==
    /\ ~reload
    /\ mix' = constrain(value, 0, Scale)
    /\ codec' = update_mix(codec, mix', bypassed(switch))
    /\ knobs' = clear_calls(knobs)
    /\ readings' = NoReadings
    /\ dispatch' = "none"
    /\ UNCHANGED <<page, switch, stomp_count, stomp_led, programs, reload, seeking,
                   appVars>>

\* ZeroStomp.update: the switch, the LED, the tap dispatch, then the knobs;
\* load_next_program() ends in supervisor.reload(), which ends the tick
update(edge, dur) ==
    /\ ~reload
    /\ LET sw == debouncer_update(switch, edge, dur)
           isEdge == switch_edge(sw)
           count == next_stomp_count(sw, stomp_count)
           load == isEdge /\ is_short(sw) /\ load_requested(count, programs)
           turn == isEdge /\ is_short(sw) /\ ~load
           p == IF turn THEN next_page_index(Len(knobs), page) ELSE page
           ks0 == clear_calls(knobs)
           ks1 == IF turn THEN next_page_knobs(ks0, p) ELSE ks0
       IN  /\ count <= MaxStompCount
           /\ switch' = sw
           /\ stomp_led' = update_led(stomp_led, bypassed(sw))
           /\ codec' = IF isEdge THEN update_mix(codec, mix, bypassed(sw)) ELSE codec
           /\ stomp_count' = count
           /\ page' = p
           /\ reload' = load
           /\ dispatch' = IF load THEN "load_next_program"
                          ELSE IF turn THEN "next_page" ELSE "none"
           /\ IF load
                THEN /\ knobs' = ks1
                     /\ readings' = NoReadings
                ELSE \E r \in Readings(Len(knobs), p) :
                        /\ readings' = r
                        /\ knobs' = deliver(ks1, p, r)
    /\ UNCHANGED <<mix, programs, seeking, appVars>>

\* supervisor.reload(): the next program starts and constructs its ZeroStomp
restart ==
    /\ reload
    /\ knobs' = <<>>
    /\ page' = 0
    /\ readings' = NoReadings
    /\ switch' = [value |-> switch.value, rose |-> FALSE, fell |-> FALSE,
                  last_duration |-> 0]
    /\ codec' = InitCodec(switch.value)
    /\ stomp_led' = [control |-> TRUE, duty_cycle |-> 0]
    /\ stomp_count' = 0
    /\ mix' = 0
    /\ reload' = FALSE
    /\ dispatch' = "none"
    /\ UNCHANGED <<programs, seeking, appVars>>

Next ==
    \/ assign_knob(KnobConfig(Len(knobs)))
    \/ \E v \in MixInputs : set_mix(v)
    \/ \E edge \in BOOLEAN, dur \in Durations : update(edge, dur)
    \/ restart

Spec == Init /\ [][Next]_vars

(* ---------------------------- a single Knob ---------------------------- *)
\* the parameter values a knob of range rng is bound at: one per level, and
\* one outside the range
BindInputs(rng) ==
    { map_value(l, rng[1], rng[2]) : l \in Levels } \cup
    { rng[1] * Scale - (rng[2] - rng[1]) }

\* one Knob, as assign_knob constructs it
InitKnob ==
    /\ \E rng \in Ranges : \E x \in BindInputs(rng) :
          knobs = << new_knob(unmap_value(x, rng[1], rng[2]), rng[1], rng[2], x) >>
    /\ page = 0
    /\ readings = NoReadings
    /\ switch = [value |-> TRUE, rose |-> FALSE, fell |-> FALSE, last_duration |-> 0]
    /\ codec = InitCodec(TRUE)
    /\ stomp_led = [control |-> TRUE, duty_cycle |-> 0]
    /\ stomp_count = 0
    /\ mix = 0
    /\ reload = FALSE
    /\ dispatch = "none"
    /\ seeking = TRUE
    /\ programs = 1
    /\ AppIdle

\* knob.value = value: a reading is delivered to the knob.  seeking records
\* that the knob was reset and has committed no reading since.
Knob_value(value) ==
    /\ knobs' = << value_setter(clear_calls(knobs)[1], value) >>
    /\ readings' = [NoReadings EXCEPT ![0] = value]
    /\ seeking' = (seeking /\ knobs'[1].calls = <<>>)
    /\ UNCHANGED <<page, switch, stomp_count, stomp_led, mix, codec, programs,
                   reload, dispatch, appVars>>

\* knob.reset(), as next_page calls it
Knob_reset ==
    /\ knobs' = << reset(clear_calls(knobs)[1], None) >>
    /\ readings' = NoReadings
    /\ seeking' = TRUE
    /\ UNCHANGED <<page, switch, stomp_count, stomp_led, mix, codec, programs,
                   reload, dispatch, appVars>>

NextKnob ==
    \/ \E value \in Levels : Knob_value(value)
    \/ Knob_reset

SpecKnob == InitKnob /\ [][NextKnob]_vars

(* ------------------------- starting a program -------------------------- *)
\* power-up: programs is the number of ".py" files in /apps, None when
\* there is no /apps directory; stored is what the settings file holds
InitLoader ==
    /\ DeviceIdle
    /\ TunerIdle
    /\ HelpersIdle
    /\ programs \in {None} \cup 0..MaxInstalled
    /\ variant \in {"circuitpython", "root"}
    /\ stored \in Settings(MaxInstalled)
    /\ settings = Unloaded
    /\ phase = "boot"
    /\ next_code = None
    /\ history = <<>>

\* boot.py: os.mkdir("/apps") when os.stat("/apps") fails
boot_py ==
    /\ phase = "boot"
    /\ programs' = IF programs = None THEN 0 ELSE programs
    /\ phase' = "code"
    /\ UNCHANGED <<deviceVars, tunerVars, helperVars, variant, stored, settings, next_code,
                   history>>

\* src/circuitpython/code.py: load_program(save=False), safe mode on OSError
code_py ==
    /\ phase = "code"
    /\ variant = "circuitpython"
    /\ LET program == get_current_program(get_setting(settings, stored), programs)
       IN  IF program = None
             THEN /\ phase' = "safe"
                  /\ next_code' = None
             ELSE /\ phase' = "reload"
                  /\ next_code' = program
    /\ settings' = [loaded |-> TRUE, program |-> get_setting(settings, stored)]
    /\ UNCHANGED <<deviceVars, tunerVars, helperVars, programs, variant, stored, history>>

\* src/code.py: safe mode without scripts; the stored script, or the first
\* script written back to the settings file (ok: the write succeeds)
root_code_py(ok) ==
    /\ phase = "code"
    /\ variant = "root"
    /\ IF programs = 0
         THEN /\ phase' = "safe"
              /\ UNCHANGED <<next_code, stored>>
         ELSE /\ phase' = "reload"
              /\ IF script_in_scripts(stored, programs)
                   THEN /\ next_code' = stored.name
                        /\ UNCHANGED stored
                   ELSE /\ next_code' = 0
                        /\ stored' = IF ok THEN [name |-> 0, py |-> TRUE] ELSE stored
    /\ UNCHANGED <<deviceVars, tunerVars, helperVars, programs, variant, settings, history>>

\* load_next_program() as update() calls it on the second short tap:
\* load_program(get_next_program(), save=True) up to supervisor.reload()
load_next_program ==
    /\ phase = "app"
    /\ variant = "circuitpython"
    /\ load_requested(2, programs)
    /\ Len(history) <= MaxRequests
    /\ LET program == get_next_program(get_setting(settings, stored), programs)
       IN  /\ program # None
           /\ settings' = update_setting(settings, [name |-> program, py |-> TRUE])
           /\ next_code' = program
    /\ phase' = "reload"
    /\ UNCHANGED <<deviceVars, tunerVars, helperVars, programs, variant, stored, history>>

\* supervisor.reload(): a new interpreter runs the file set_next_code_file named
supervisor_reload ==
    /\ phase = "reload"
    /\ phase' = "app"
    /\ history' = Append(history, next_code)
    /\ settings' = Unloaded
    /\ next_code' = None
    /\ UNCHANGED <<deviceVars, tunerVars, helperVars, programs, variant, stored>>

NextLoader ==
    \/ boot_py
    \/ code_py
    \/ \E ok \in BOOLEAN : root_code_py(ok)
    \/ load_next_program
    \/ supervisor_reload

SpecLoader == InitLoader /\ [][NextLoader]_vars

(* --------------------------- the tuner program ------------------------- *)
\* apps/tuner.py up to the loop: controls.hidden = True, an empty note label
InitTuner ==
    /\ DeviceIdle
    /\ LoaderIdle
    /\ HelpersIdle
    /\ programs = 1
    /\ controls_hidden = TRUE
    /\ display = NoDisplay
    /\ fault = FALSE
    /\ gate = "none"
    /\ level = 0
    /\ spectrum = <<>>
    /\ data = <<>>
    /\ pitch = NoPitch

\* one pass of the while loop on the frame i2s.read returned, spec being what
\* ulab.utils.spectrogram makes of it (its lower half).  The division by
\* np.sum(data) raises ZeroDivisionError when the sum is 0, which ends the
\* program before the display is written.  device.update() is the action
\* update of Spec.
tuner_tick(frame, spec) ==
    /\ ~fault
    /\ LET l == frame_level(frame)
           hidden == gate_hidden(controls_hidden, l, LevelUnit(frame))
       IN  /\ level' = l
           /\ controls_hidden' = hidden
           /\ gate' = IF hidden = controls_hidden THEN "none"
                      ELSE IF hidden THEN "closed" ELSE "opened"
           /\ IF gate_continue(hidden)
                THEN /\ spectrum' = <<>>
                     /\ data' = <<>>
                     /\ UNCHANGED <<display, fault>>
                ELSE /\ spectrum' = spec
                     /\ data' = reduce(spec)
                     /\ IF centre(data').den = 0
                          THEN /\ fault' = TRUE
                               /\ UNCHANGED display
                          ELSE /\ fault' = FALSE
                               /\ display' = centre(data')
    /\ UNCHANGED <<deviceVars, loaderVars, helperVars, programs, pitch>>

\* the program is started again after it ended in an exception
tuner_start ==
    /\ fault
    /\ controls_hidden' = TRUE
    /\ display' = NoDisplay
    /\ fault' = FALSE
    /\ gate' = "none"
    /\ level' = 0
    /\ spectrum' = <<>>
    /\ data' = <<>>
    /\ UNCHANGED <<deviceVars, loaderVars, helperVars, programs, pitch>>

NextTuner ==
    \/ \E frame \in Frames, spec \in TunerSpectra : tuner_tick(frame, spec)
    \/ tuner_start

SpecTuner == InitTuner /\ [][NextTuner]_vars

(* ------------------- threshold and area clearing alone ----------------- *)
\* a spectrogram of MaxBins bins, not yet reduced
InitReduce ==
    /\ DeviceIdle
    /\ LoaderIdle
    /\ HelpersIdle
    /\ programs = 1
    /\ controls_hidden = FALSE
    /\ display = NoDisplay
    /\ fault = FALSE
    /\ gate = "none"
    /\ level = 0
    /\ spectrum \in Spectra(MaxBins, MaxMagnitude)
    /\ data = <<>>
    /\ pitch = NoPitch

\* lines 99 to 124 of apps/tuner.py applied to the spectrogram
reduce_spectrum ==
    /\ data = <<>>
    /\ data' = reduce(spectrum)
    /\ UNCHANGED <<deviceVars, loaderVars, helperVars, programs, controls_hidden, display,
                   fault, gate, level, spectrum, pitch>>

\* the same lines applied to their own result
reduce_again ==
    /\ data # <<>>
    /\ spectrum' = data
    /\ data' = reduce(data)
    /\ UNCHANGED <<deviceVars, loaderVars, helperVars, programs, controls_hidden, display,
                   fault, gate, level, pitch>>

NextReduce == reduce_spectrum \/ reduce_again

SpecReduce == InitReduce /\ [][NextReduce]_vars

(* ------------------- unmap_value and map_value alone ------------------- *)
\* the parameter values the conversions are exercised with, times Scale: from
\* below every range to above every range, on and next to the quarters
NormInputs ==
    { k * (Scale \div 4) + j : k \in (-MaxNorm)..(4 * MaxNorm), j \in {0, 1} }

\* a parameter value v and the range of a binding
InitNormalizer ==
    /\ DeviceIdle
    /\ LoaderIdle
    /\ TunerIdle
    /\ BindingIdle
    /\ programs = 1
    /\ \E v \in NormInputs, rng \in Ranges :
          norm = [stage |-> "input", v |-> v, lo |-> rng[1], hi |-> rng[2],
                  u |-> 0, back |-> 0]

\* u = unmap_value(v, lo, hi), as assign_knob computes the knob value
norm_unmap ==
    /\ norm.stage = "input"
    /\ norm' = [norm EXCEPT !.stage = "unmapped",
                            !.u = unmap_value(norm.v, norm.lo, norm.hi)]
    /\ UNCHANGED <<deviceVars, loaderVars, tunerVars, programs, binding>>

\* back = map_value(u, lo, hi), as the knob callback computes the parameter
norm_map ==
    /\ norm.stage = "unmapped"
    /\ norm' = [norm EXCEPT !.stage = "mapped",
                            !.back = map_value(norm.u, norm.lo, norm.hi)]
    /\ UNCHANGED <<deviceVars, loaderVars, tunerVars, programs, binding>>

NextNormalizer == norm_unmap \/ norm_map

SpecNormalizer == InitNormalizer /\ [][NextNormalizer]_vars

(* --------------------- the tuner's display update ---------------------- *)
\* the loop has a frequency for the spectrum it kept (line 130)
InitPitch ==
    /\ DeviceIdle
    /\ LoaderIdle
    /\ HelpersIdle
    /\ programs = 1
    /\ controls_hidden = FALSE
    /\ display = NoDisplay
    /\ fault = FALSE
    /\ gate = "none"
    /\ level = 0
    /\ spectrum = <<>>
    /\ data = <<>>
    /\ \E p \in PitchInputs : pitch = [stage |-> "frequency", p |-> p]

\* lines 133 to 148 of apps/tuner.py: the note, its name, the cents and the
\* deviation bar
tuner_display ==
    /\ pitch.stage = "frequency"
    /\ \E n \in notenum(pitch.p) :
          LET c == cents(pitch.p, n)
              width == cents_rect_width(c)
          IN  pitch' = [stage |-> "shown", p |-> pitch.p, notenum |-> n,
                        name |-> note_name(n), octave |-> note_octave(n),
                        cents |-> c, width |-> width,
                        x |-> cents_rect_x(c, width)]
    /\ UNCHANGED <<deviceVars, loaderVars, helperVars, programs, controls_hidden, display,
                   fault, gate, level, spectrum, data>>

NextPitch == tuner_display

SpecPitch == InitPitch /\ [][NextPitch]_vars

(* -------------------------- set_attribute alone ------------------------ *)
\* a call of set_attribute is about to be made
InitBinding ==
    /\ DeviceIdle
    /\ LoaderIdle
    /\ TunerIdle
    /\ NormIdle
    /\ programs = 1
    /\ \E arg \in BindingArgs, value \in {5, 7}, is_float \in BOOLEAN,
          offset \in {0, 2} :
          binding = [stage |-> "call", arg |-> arg, value |-> value,
                     is_float |-> is_float, offset |-> offset]

\* set_attribute(items, name, value, offset) returns
binding_set_attribute ==
    /\ binding.stage = "call"
    /\ binding' = [stage |-> "returned", arg |-> binding.arg,
                   value |-> binding.value, is_float |-> binding.is_float,
                   offset |-> binding.offset,
                   after |-> set_attribute(binding.arg, binding.value,
                                           binding.is_float, binding.offset)]
    /\ UNCHANGED <<deviceVars, loaderVars, tunerVars, programs, norm>>

NextBinding == binding_set_attribute

SpecBinding == InitBinding /\ [][NextBinding]_vars

(* --------------------------- the status LED ---------------------------- *)
\* A device without knobs, of either variant.  For src/zero_stomp.py the
\* object is taken as constructed with its switch and LED.
InitLed ==
    /\ \E v \in BOOLEAN : InitDevice(v)
    /\ programs \in 0..MaxPrograms
    /\ variant \in {"circuitpython", "root"}
    /\ stored = NoSetting
    /\ settings = Unloaded
    /\ phase = "app"
    /\ next_code = None
    /\ history = <<>>
    /\ TunerIdle
    /\ HelpersIdle

\* device.led = value, as the loops of tremolo.py, delay.py and wah.py do
\* after device.update()
set_led(value) ==
    /\ variant = "circuitpython"
    /\ ~reload
    /\ stomp_led' = led_setter(stomp_led, value)
    /\ knobs' = clear_calls(knobs)
    /\ readings' = NoReadings
    /\ dispatch' = "none"
    /\ UNCHANGED <<page, switch, stomp_count, mix, codec, programs, reload, seeking,
                   appVars>>

\* ZeroStomp.update of src/zero_stomp.py: the value 2 ** 16 it assigns to
\* duty_cycle when not bypassed is refused by pwmio with a ValueError; on an
\* edge _update_mix sets dac_mute and mic_output_volume and then calls
\* map_range with three of its five arguments, a TypeError.  Either ends the
\* program.
root_update(edge, dur) ==
    /\ variant = "root"
    /\ dispatch \notin {"ValueError", "TypeError"}
    /\ LET sw == debouncer_update(switch, edge, dur)
       IN  /\ switch' = sw
           /\ stomp_led' = [stomp_led EXCEPT !.duty_cycle =
                               IF sw.value THEN 0 ELSE 65536]
           /\ IF ~sw.value
                THEN /\ dispatch' = "ValueError"
                     /\ UNCHANGED codec
                ELSE IF switch_edge(sw)
                  THEN /\ dispatch' = "TypeError"
                       /\ codec' = [codec EXCEPT !.dac_mute = TRUE,
                                                 !.mic_output_volume = 0]
                  ELSE /\ dispatch' = "none"
                       /\ UNCHANGED codec
    /\ UNCHANGED <<knobs, page, readings, stomp_count, mix, programs, reload,
                   seeking, appVars>>

NextLed ==
    \/ \E edge \in BOOLEAN, dur \in Durations :
          variant = "circuitpython" /\ update(edge, dur)
    \/ \E value \in LedInputs : set_led(value)
    \/ variant = "circuitpython" /\ restart
    \/ \E edge \in BOOLEAN, dur \in Durations : root_update(edge, dur)

SpecLed == InitLed /\ [][NextLed]_vars

(* ------------------------------ properties ----------------------------- *)
\* x lies between a and b, inclusive, whichever of a and b is the larger
Between(a, x, b) == (a <= x /\ x <= b) \/ (b <= x /\ x <= a)

\* the single knob of SpecKnob, and the reading a Knob_value step delivers
TheKnob == knobs[1]

\* a step delivered a reading to the single knob
Delivered == readings'[0] # None

\* the step ran the knob's target setter
Committed == knobs'[1].calls # <<>>

\* the step changed the knob's stored value or its bound parameter
Changed == knobs'[1].value # TheKnob.value \/ knobs'[1].param # TheKnob.param

\* the source's condition for a reading to be stored, on previous marker p,
\* stored value c and reading r
CommitRule(p, c, r) ==
    /\ p # None
    /\ \/ p = c /\ Abs(r - c) >= Threshold
       \/ p < c /\ r >= c
       \/ p > c /\ r <= c

\* knob j (counted from 1) belongs to page p; the channel that feeds it
OnPage(j, p) == (j - 1) \div NUM_POTS = p

Channel(j) == (j - 1) % NUM_POTS

\* the step is a tick of ZeroStomp.update
UpdateStep == \E edge \in BOOLEAN, dur \in Durations : update(edge, dur)

\* C1 as stated: a reading changes the stored value or the bound parameter
\* only if the stored value lies between the immediately preceding reading
\* and the new reading (SpecKnob).
C1_ChangeOnlyBetweenLastReadings ==
    [][(Delivered /\ Changed) =>
          (readings[0] # None /\ Between(readings[0], TheKnob.value, readings'[0]))]_vars

\* C1 amended: a reading changes the stored value or the bound parameter only
\* if the stored value lies between the knob's previous marker and the new
\* reading; the first reading after a reset changes nothing (SpecKnob).
C1_ChangeOnlyBetweenMarkerAndReading ==
    [][(Delivered /\ Changed) =>
          (TheKnob.previous # None
           /\ Between(TheKnob.previous, TheKnob.value, readings'[0]))]_vars

\* C1 witness: a reading that crossed the stored value was committed
C1_Witness ==
    /\ ~seeking
    /\ readings[0] # None
    /\ Len(TheKnob.calls) = 1
    /\ TheKnob.value = readings[0]
    /\ TheKnob.value # 0

\* C2 as stated: while a knob that was reset has committed nothing, a reading
\* is committed exactly when it differs from the stored value by at least
\* the threshold (SpecKnob).
C2_SeekingCommitsFirstOverThreshold ==
    [][(Delivered /\ seeking) =>
          (Committed <=> Abs(readings'[0] - TheKnob.value) >= Threshold)]_vars

\* C2 amended: for a knob whose previous marker equals its stored value, a
\* reading is committed exactly when it differs from the stored value by at
\* least the threshold, and a reading that is not committed leaves the knob as
\* it was, so the first reading over the threshold is the first committed
\* (SpecKnob).
C2_TrackingCommitsFirstOverThreshold ==
    [][(Delivered /\ TheKnob.previous = TheKnob.value) =>
          /\ Committed <=> Abs(readings'[0] - TheKnob.value) >= Threshold
          /\ ~Committed => /\ knobs'[1].previous = TheKnob.previous
                           /\ knobs'[1].value = TheKnob.value]_vars

\* C2 witness: a tracking knob has just left a sub-threshold reading
\* uncommitted
C2_Witness ==
    /\ TheKnob.previous = TheKnob.value
    /\ readings[0] # None
    /\ readings[0] # TheKnob.value
    /\ TheKnob.calls = <<>>

\* C3 as stated: after next_page() the next reading a knob is given is
\* committed, whether it lies above or below the stored value (Spec; the tick
\* that turns the page gives the knobs of the new page that reading).
C3_ReadingAfterNextPageCommitted ==
    dispatch = "next_page" =>
        \A j \in DOMAIN knobs :
            (OnPage(j, page) /\ readings[Channel(j)] # None) =>
                (knobs[j].calls # <<>> /\ knobs[j].value = readings[Channel(j)])

\* C3 amended: next_page() clears the previous marker of every knob, on every
\* page; the next reading a knob is given is not committed, above or below the
\* stored value: it only becomes the previous marker, and the stored value
\* and the bound parameter stay as they were (Spec).
C3_NextPageClearsMarkerFirstReadingKept ==
    [][dispatch' = "next_page" =>
          /\ Len(knobs') = Len(knobs)
          /\ \A j \in DOMAIN knobs :
                /\ knobs'[j].value = knobs[j].value
                /\ knobs'[j].param = knobs[j].param
                /\ knobs'[j].calls = <<>>
                /\ knobs'[j].previous =
                      IF OnPage(j, page') THEN readings'[Channel(j)] ELSE None]_vars

\* C3 witness: the page was turned and knobs of the new page were given
\* readings above and below their stored values
C3_Witness ==
    /\ dispatch = "next_page"
    /\ \E j \in DOMAIN knobs :
          OnPage(j, page) /\ knobs[j].previous # None /\ knobs[j].previous > knobs[j].value
    /\ \E j \in DOMAIN knobs :
          OnPage(j, page) /\ knobs[j].previous # None /\ knobs[j].previous < knobs[j].value
    /\ \E j \in DOMAIN knobs : ~OnPage(j, page)

\* C4: after next_page() knob i (counted from 0) is visible iff
\* i div NUM_POTS is the new current page (Spec).
C4_VisibleIffOnNewPage ==
    dispatch = "next_page" =>
        \A j \in DOMAIN knobs : knobs[j].hidden = ~OnPage(j, page)

\* C4 witness: the page was turned to the second page of five knobs
C4_Witness ==
    /\ dispatch = "next_page"
    /\ page = 1
    /\ Len(knobs) = MaxKnobs
    /\ \E j \in DOMAIN knobs : knobs[j].hidden
    /\ \E j \in DOMAIN knobs : ~knobs[j].hidden

\* C5: for a knob bound with range (lo, hi), a committed reading v runs the
\* target setter exactly once, with map_value(v, lo, hi), which becomes the
\* bound parameter; a reading that is not committed does not run the setter
\* and leaves the stored value and the bound parameter unchanged (SpecKnob).
C5_CommitRunsSetterOnceWithMappedValue ==
    [][Delivered =>
          IF CommitRule(TheKnob.previous, TheKnob.value, readings'[0])
            THEN /\ knobs'[1].calls =
                       << map_value(readings'[0], TheKnob.lo, TheKnob.hi) >>
                 /\ knobs'[1].param = map_value(readings'[0], TheKnob.lo, TheKnob.hi)
                 /\ knobs'[1].value = readings'[0]
            ELSE /\ knobs'[1].calls = <<>>
                 /\ knobs'[1].param = TheKnob.param
                 /\ knobs'[1].value = TheKnob.value]_vars

\* C5 witness: a knob bound with a reversed range committed a reading, and
\* its target holds the mapped value
C5_Witness ==
    /\ readings[0] # None
    /\ TheKnob.lo > TheKnob.hi
    /\ Len(TheKnob.calls) = 1
    /\ TheKnob.value = readings[0]
    /\ TheKnob.param = TheKnob.lo * Scale - (TheKnob.lo - TheKnob.hi) * readings[0]
    /\ TheKnob.param # TheKnob.value

\* C6 as stated: a tick of update() leaves the stored value, the previous
\* marker and the bound parameter of every knob on another page than the
\* current one unchanged (Spec).
C6_OtherPagesUntouchedByTick ==
    [][UpdateStep =>
          \A j \in DOMAIN knobs :
              ~OnPage(j, page') =>
                  /\ knobs'[j].value = knobs[j].value
                  /\ knobs'[j].previous = knobs[j].previous
                  /\ knobs'[j].param = knobs[j].param]_vars

\* C6 amended: a tick of update() gives the reading of channel c only to the
\* knob at index page * NUM_POTS + c, if there is one; every knob on another
\* page keeps its stored value and bound parameter, its setter is not run, and
\* its previous marker is unchanged, or cleared when the tick turned the
\* page (Spec).
C6_ReadingsOnlyToCurrentPage ==
    [][UpdateStep =>
          /\ Len(knobs') = Len(knobs)
          /\ \A c \in 0..(NUM_POTS - 1) :
                (readings'[c] # None) <=> (page' * NUM_POTS + c < Len(knobs) /\ ~reload')
          /\ \A j \in DOMAIN knobs :
                IF OnPage(j, page') /\ ~reload'
                  THEN /\ knobs'[j].previous # None
                       /\ knobs'[j].value \in {knobs[j].value, readings'[Channel(j)]}
                       /\ knobs'[j].calls # <<>> => knobs'[j].value = readings'[Channel(j)]
                  ELSE /\ knobs'[j].value = knobs[j].value
                       /\ knobs'[j].param = knobs[j].param
                       /\ knobs'[j].calls = <<>>
                       /\ knobs'[j].previous =
                             IF dispatch' = "next_page" THEN None
                                                        ELSE knobs[j].previous]_vars

\* C6 witness: with two pages, a tick on the second page gave its knobs
\* readings and the knobs of the first page none
C6_Witness ==
    /\ Len(knobs) > NUM_POTS
    /\ page = 1
    /\ dispatch = "none"
    /\ readings[0] # None
    /\ knobs[NUM_POTS + 1].previous = readings[0]
    /\ knobs[NUM_POTS + 1].calls # <<>>
    /\ knobs[1].previous = None

\* C7: add_knob appends the knob at index n, the previous knob count, and the
\* new knob starts hidden iff n div NUM_POTS differs from the current page,
\* whatever that page is; the knobs before it are left alone (Spec).
C7_NewKnobHiddenIffOffPage ==
    [][Len(knobs') = Len(knobs) + 1 =>
          /\ knobs'[Len(knobs) + 1].hidden = (Len(knobs) \div NUM_POTS # page)
          /\ page' = page
          /\ \A j \in DOMAIN knobs :
                /\ knobs'[j].hidden = knobs[j].hidden
                /\ knobs'[j].value = knobs[j].value
                /\ knobs'[j].previous = knobs[j].previous]_vars

\* C7 witness: a knob was added to the second page while it was the current
\* page, and starts visible
C7_Witness ==
    /\ page = 1
    /\ Len(knobs) = NUM_POTS + 2
    /\ knobs[NUM_POTS + 2].previous = None
    /\ ~knobs[NUM_POTS + 2].hidden
    /\ knobs[NUM_POTS + 1].previous # None

\* C8: on a switch edge that ends an interval shorter than
\* SWITCH_SHORT_DURATION the tap counter grows by exactly 1; on an edge that
\* ends an interval at least that long it is set to 0 (Spec).
C8_TapCounterRule ==
    [][switch'.value # switch.value =>
          /\ switch'.rose \/ switch'.fell
          /\ IF switch'.last_duration < SWITCH_SHORT_DURATION
               THEN stomp_count' = stomp_count + 1
               ELSE stomp_count' = 0]_vars

\* C8 witness: two short edges in a row have brought the counter to 2
C8_Witness ==
    /\ switch.rose \/ switch.fell
    /\ switch.last_duration < SWITCH_SHORT_DURATION
    /\ stomp_count = 2

\* C9: a short edge calls exactly one of next_page() and load_next_program():
\* the latter, leaving the page, iff the counter after the increment is above
\* 1 and more than one program is installed, next_page() otherwise; a long
\* edge calls neither (Spec).
C9_ShortEdgeDispatch ==
    [][switch'.value # switch.value =>
          IF switch'.last_duration < SWITCH_SHORT_DURATION
            THEN IF stomp_count' > 1 /\ programs > 1
                   THEN /\ dispatch' = "load_next_program"
                        /\ reload'
                        /\ page' = page
                        /\ \A j \in DOMAIN knobs : knobs'[j].previous = knobs[j].previous
                   ELSE /\ dispatch' = "next_page"
                        /\ ~reload'
                        /\ page' = (page + 1) % page_count(Len(knobs))
                        /\ \A j \in DOMAIN knobs : ~OnPage(j, page') =>
                              knobs'[j].previous = None
            ELSE /\ dispatch' = "none"
                 /\ ~reload'
                 /\ page' = page
                 /\ \A j \in DOMAIN knobs : ~OnPage(j, page') =>
                       knobs'[j].previous = knobs[j].previous]_vars

\* C9 witness: the second short edge asked for the next program and left the
\* device on its second page
C9_Witness ==
    /\ dispatch = "load_next_program"
    /\ reload
    /\ page = 1
    /\ stomp_count = 2

\* C10 as stated: while bypass is active the dry gain is the floor of the dry
\* volume range, whatever the mix (Spec).
C10_BypassDryGainAtFloor ==
    bypassed(switch) => codec.mic_output_volume = OUTPUT_VOLUME_MIN * Scale

\* C10 amended: while bypass is active the dry gain is 0 dB, the top of the
\* dry volume range, whatever the mix (Spec).
C10_BypassDryGainAtUnity ==
    bypassed(switch) => codec.mic_output_volume = 0

\* C10 witness: bypass is active at full mix, where the gain without bypass
\* would be the floor
C10_Witness ==
    /\ bypassed(switch)
    /\ mix = Scale
    /\ codec.mic_output_volume = 0
    /\ map_value(Scale - mix, OUTPUT_VOLUME_MIN, 0) = OUTPUT_VOLUME_MIN * Scale

\* C11: the dry bleed path is off iff the device is not bypassed and the mix
\* is at least 1.0; it is on again as soon as bypass is active or the mix is
\* below 1.0 (Spec).
C11_DryPathOffIffFullMixNotBypassed ==
    codec.mic_output = ~(~bypassed(switch) /\ mix >= Scale)

\* C11 witness: the dry path is on at full mix because bypass became active on
\* a switch edge
C11_Witness ==
    /\ switch.rose
    /\ bypassed(switch)
    /\ mix >= Scale
    /\ codec.mic_output

\* C12: while bypass is active the DAC (wet) path is muted whatever the mix;
\* a switch tick keeps the stored mix, and when bypass is not active the wet
\* path is unmuted at the gain map_value(mix, DAC_VOLUME_MIN, 0) (Spec).
C12_BypassMutesWetPathAndKeepsMix ==
    [][ /\ bypassed(switch') => codec'.dac_mute
        /\ UpdateStep => mix' = mix
        /\ ~bypassed(switch') =>
              /\ ~codec'.dac_mute
              /\ codec'.dac_volume = map_value(mix', DAC_VOLUME_MIN, 0) ]_vars

\* C12 witness: bypass was left on a switch edge with a mix above zero, and
\* the wet path is unmuted at the gain of that mix
C12_Witness ==
    /\ switch.fell
    /\ ~bypassed(switch)
    /\ mix = Scale \div 2
    /\ ~codec.dac_mute
    /\ codec.dac_volume = map_value(Scale \div 2, DAC_VOLUME_MIN, 0)
    /\ codec.dac_volume > DAC_VOLUME_MIN * Scale

\* the step is the restart that follows a next-program request
RequestedRestart == phase = "reload" /\ phase' = "app" /\ history # <<>>

\* the step is the restart that ends the startup
StartupRestart == phase = "reload" /\ phase' = "app" /\ history = <<>>

\* C13: a next-program request launches the program after the running one and
\* persists the choice, so that after the restart the current program is the
\* one that runs; after as many requests as there are programs every
\* installed program has run and the first one runs again (SpecLoader).
C13_NextProgramPersistedAndVisitsAll ==
    [][ RequestedRestart =>
          /\ running' = (running + 1) % programs
          /\ get_current_program(get_setting(settings', stored'), programs) = running'
          /\ Len(history') = programs + 1 =>
                /\ running' = history'[1]
                /\ { history'[i] : i \in 1..programs } = 0..(programs - 1) ]_vars

\* the step is the startup loader: code.py of either variant
StartupStep == code_py \/ \E ok \in BOOLEAN : root_code_py(ok)

TunerTick == \E frame \in Frames, spec \in TunerSpectra : tuner_tick(frame, spec)

\* the value of level 1.0 in the units of the variable level
FrameUnit == LevelUnit(CHOOSE frame \in Frames : TRUE)

\* every sample of the frame is the same
Uniform(frame) == \A i, j \in DOMAIN frame : frame[i] = frame[j]

\* C15: the gate opens exactly on a tick whose level is above 0.01 while it is
\* closed, closes exactly on a tick whose level is below 0.002 while it is
\* open, and a level between the two thresholds leaves it as it is
\* (SpecTuner).
C15_GateHysteresis ==
    [][ TunerTick =>
          /\ (controls_hidden /\ ~controls_hidden') <=>
                (controls_hidden /\ 1000 * level' > LEVEL_ATTACK * FrameUnit)
          /\ (~controls_hidden /\ controls_hidden') <=>
                (~controls_hidden /\ 1000 * level' < LEVEL_RELEASE * FrameUnit)
          /\ ( /\ 1000 * level' >= LEVEL_RELEASE * FrameUnit
               /\ 1000 * level' <= LEVEL_ATTACK * FrameUnit )
                => controls_hidden' = controls_hidden ]_vars

\* C15 witness: the gate is open after a tick that left it alone, on a level
\* inside the band, which would not have opened it
C15_Witness ==
    /\ ~controls_hidden
    /\ gate = "none"
    /\ 1000 * level > LEVEL_RELEASE * FrameUnit
    /\ 1000 * level < LEVEL_ATTACK * FrameUnit

\* C16: a tick that ends with the gate closed computes no spectrogram, ends
\* without an exception and leaves the note label and the bar as they were;
\* a uniform frame has level 0 and leaves a closed gate closed (SpecTuner).
C16_IdleTickDoesNoDetection ==
    [][ /\ (TunerTick /\ controls_hidden') =>
              /\ spectrum' = <<>>
              /\ data' = <<>>
              /\ display' = display
              /\ ~fault'
        /\ \A frame \in Frames, spec \in TunerSpectra :
              (tuner_tick(frame, spec) /\ Uniform(frame)) =>
                  /\ level' = 0
                  /\ controls_hidden => controls_hidden' ]_vars

\* C16 witness: the tick closed the gate while the display shows a note
C16_Witness ==
    /\ gate = "closed"
    /\ controls_hidden
    /\ spectrum = <<>>
    /\ display # NoDisplay

\* C17: a tick on which no bin survives the threshold raises no exception and
\* leaves the note label and the bar as they were (SpecTuner).
C17_NoSurvivingBinNoFault ==
    [][ (TunerTick /\ ~controls_hidden' /\ Sum(data') = 0) =>
            /\ ~fault'
            /\ display' = display ]_vars

\* bins s to e (counted from 1) are a maximal run of non-zero bins of a
IsRun(a, s, e) ==
    /\ s <= e
    /\ \A k \in s..e : a[k] # 0
    /\ s = 1 \/ a[s - 1] = 0
    /\ e = Len(a) \/ a[e + 1] = 0

Runs(a) == { r \in (DOMAIN a) \X (DOMAIN a) : IsRun(a, r[1], r[2]) }

\* the run of greatest length, the last of them when several share it
LongestRun(a) ==
    CHOOSE r \in Runs(a) :
        \A q \in Runs(a) :
            \/ q[2] - q[1] < r[2] - r[1]
            \/ q[2] - q[1] = r[2] - r[1] /\ q[1] <= r[1]

\* a with every run but the longest zeroed
KeepLongestRun(a) ==
    IF Runs(a) = {} THEN a
    ELSE [k \in DOMAIN a |->
            IF LongestRun(a)[1] <= k /\ k <= LongestRun(a)[2] THEN a[k] ELSE 0]

\* C18: of the maximal non-zero runs of the thresholded spectrogram only the
\* longest keeps its bins, the last one among runs of equal length
\* (SpecReduce).
C18_LongestRunKept ==
    [][ reduce_spectrum => data' = KeepLongestRun(threshold_where(spectrum)) ]_vars

\* C19: threshold and area clearing applied to their own result give the
\* same array again (SpecReduce).
C19_ReduceIdempotent ==
    [][ reduce_again => data' = data ]_vars

\* C19 witness: the reduction was applied to an array it had produced, one
\* that holds a cleared bin and a kept bin below its maximum
C19_Witness ==
    /\ data # <<>>
    /\ spectrum = data
    /\ \E k \in DOMAIN data : 0 < data[k] /\ data[k] < ArrayMax(data)
    /\ \E k \in DOMAIN data : data[k] = 0

\* C20 as stated: for lo < hi, map(unmap(v, lo, hi), lo, hi) is v clamped
\* into [0, 1], within the resolution of the conversion (SpecNormalizer).
C20_RoundTripIsClampToUnit ==
    (norm.stage = "mapped" /\ norm.lo < norm.hi) =>
        Abs(norm.back - constrain(norm.v, 0, Scale)) < norm.hi - norm.lo

\* C20 amended: for lo < hi, map(unmap(v, lo, hi), lo, hi) is v clamped into
\* [lo, hi], within the resolution of the conversion, and unmap(v, lo, hi)
\* lies in [0, 1] (SpecNormalizer).
C20_RoundTripIsClampToRange ==
    (norm.stage = "mapped" /\ norm.lo < norm.hi) =>
        /\ 0 <= norm.u /\ norm.u <= Scale
        /\ Abs(norm.back - constrain(norm.v, norm.lo * Scale, norm.hi * Scale))
              < norm.hi - norm.lo

\* C20 witness: a value above a range that does not start at 0 came back as
\* the top of the range, which is neither the value nor 1.0
C20_Witness ==
    /\ norm.stage = "mapped"
    /\ norm.lo = 1 /\ norm.hi = 3
    /\ norm.v > norm.hi * Scale
    /\ norm.back = norm.hi * Scale
    /\ norm.back # Scale

\* C23 as stated: for a knob that has committed a reading since its reset, a
\* reading r is committed exactly when (previous < r and r >= current) or
\* (previous > r and r <= current), previous being the reading before it and
\* current the stored value (SpecKnob).
C23_CrossingAgainstPreviousReading ==
    [][(Delivered /\ ~seeking /\ readings[0] # None) =>
          (Committed <=>
              \/ readings[0] < readings'[0] /\ readings'[0] >= TheKnob.value
              \/ readings[0] > readings'[0] /\ readings'[0] <= TheKnob.value)]_vars

\* C23 amended: for a knob whose previous marker is set and differs from the
\* stored value, a reading r is committed exactly when (marker < current and
\* r >= current) or (marker > current and r <= current): the marker is
\* compared with the stored value, not with the reading, so a reading that
\* moves further away on the marker's side is not committed (SpecKnob).
C23_CrossingAgainstStoredValue ==
    [][(Delivered /\ TheKnob.previous # None /\ TheKnob.previous # TheKnob.value) =>
          /\ Committed <=>
                \/ TheKnob.previous < TheKnob.value /\ readings'[0] >= TheKnob.value
                \/ TheKnob.previous > TheKnob.value /\ readings'[0] <= TheKnob.value
          /\ Committed => knobs'[1].value = readings'[0]
          /\ ~Committed => knobs'[1].value = TheKnob.value]_vars

\* C23 witness: a knob whose marker lies above the stored value has just left
\* a reading above the marker uncommitted
C23_Witness ==
    /\ TheKnob.previous # None
    /\ TheKnob.previous > TheKnob.value + 1
    /\ readings[0] = TheKnob.previous
    /\ TheKnob.calls = <<>>

\* C24 as stated: after every reading delivered to a knob, committed or not,
\* the knob's previous marker equals that reading (SpecKnob).
C24_MarkerAlwaysLatestReading ==
    [][Delivered => knobs'[1].previous = readings'[0]]_vars

\* C24 amended: after a reading delivered to a knob the previous marker
\* equals that reading, except for a knob whose marker equals its stored
\* value and whose reading is within the threshold of it: that reading leaves
\* the marker on the stored value (SpecKnob).
C24_MarkerLatestReadingUnlessHeld ==
    [][Delivered =>
          IF /\ TheKnob.previous = TheKnob.value
             /\ Abs(readings'[0] - TheKnob.value) < Threshold
            THEN knobs'[1].previous = TheKnob.value
            ELSE knobs'[1].previous = readings'[0]]_vars

\* C24 witness: an uncommitted reading has become the marker of a knob that
\* was reset, and differs from the stored value
C24_Witness ==
    /\ seeking
    /\ readings[0] # None
    /\ TheKnob.previous = readings[0]
    /\ TheKnob.previous < TheKnob.value
    /\ TheKnob.calls = <<>>

\* the step sees a switch edge; the edge ends a short interval
EdgeStep == switch'.value # switch.value

ShortEdgeStep == EdgeStep /\ switch'.last_duration < SWITCH_SHORT_DURATION

\* what C25 says of a short edge: the counter grows by 1 whatever is
\* dispatched, and with more than one program installed a counter above 1
\* requests the next program and leaves the page
ShortEdgeAccumulates ==
    ShortEdgeStep =>
       /\ stomp_count' = stomp_count + 1
       /\ dispatch' = "load_next_program" <=> (programs > 1 /\ stomp_count' > 1)
       /\ dispatch' = "load_next_program" => page' = page
       /\ dispatch' # "load_next_program" => dispatch' = "next_page"

\* C25 as stated: a short edge adds 1 to the tap counter whatever it
\* dispatches, with more than one program installed every short edge that
\* finds the counter above 0 requests the next program and leaves the page,
\* and nothing but a long edge takes the counter down (Spec).
C25_CounterFallsOnlyOnLongEdge ==
    [][/\ ShortEdgeAccumulates
       /\ stomp_count' < stomp_count => (EdgeStep /\ ~ShortEdgeStep)]_vars

\* C25 amended: a short edge adds 1 to the tap counter whatever it
\* dispatches, and with more than one program installed the short edge that
\* takes the counter above 1 requests the next program and leaves the page;
\* the counter goes down on a long edge and when the requested program
\* starts, which sets it to 0, so a running program with more than one
\* program installed never holds a counter above 1 (Spec).
C25_CounterFallsOnLongEdgeOrRestart ==
    [][/\ ShortEdgeAccumulates
       /\ stomp_count' < stomp_count =>
             /\ stomp_count' = 0
             /\ (EdgeStep /\ ~ShortEdgeStep) \/ (reload /\ ~reload')
       /\ (reload /\ ~reload') => (stomp_count' = 0 /\ page' = 0)
       /\ (programs > 1 /\ ~reload') => stomp_count' <= 1]_vars

\* C25 witness: with one program installed two short edges in a row have
\* each advanced the page, back to the first of two pages, and the counter
\* stands at 2
C25_Witness ==
    /\ programs = 1
    /\ dispatch = "next_page"
    /\ stomp_count = 2
    /\ Len(knobs) > NUM_POTS
    /\ page = 0

\* the codec settings _update_mix derives from a mix m and a bypass state byp
MixDerived(cd, m, byp) ==
    /\ cd.dac_mute = byp
    /\ cd.mic_output_volume =
          (IF byp THEN 0 ELSE map_value(Scale - m, OUTPUT_VOLUME_MIN, 0))
    /\ cd.mic_output = (byp \/ m < Scale)

PageCountOf(n) == (IF n - 1 > 0 THEN n - 1 ELSE 0) \div NUM_POTS + 1

\* C27: after every step 0 <= page < pageCount, pageCount being
\* max(knobCount - 1, 0) div NUM_POTS + 1; a tick that calls next_page() sets
\* the page to (page + 1) mod pageCount and resets every knob, so that no knob
\* commits in that tick and the knobs of the new page hold their reading as
\* marker; with a single page the page stays 0 and the knobs are reset all the
\* same (Spec).
C27_PageWithinPageCount ==
    [][/\ 0 <= page'
       /\ page' < PageCountOf(Len(knobs'))
       /\ dispatch' = "next_page" =>
             /\ page' = (page + 1) % PageCountOf(Len(knobs))
             /\ PageCountOf(Len(knobs)) = 1 => page' = 0
             /\ \A j \in DOMAIN knobs :
                   /\ knobs'[j].calls = <<>>
                   /\ knobs'[j].value = knobs[j].value
                   /\ knobs'[j].previous =
                         (IF OnPage(j, page') THEN readings'[Channel(j)] ELSE None)]_vars

\* C27 witness: with a single page a page turn left the page at 0 and reset
\* the first knob, whose reading, far from its stored value, was not
\* committed
C27_Witness ==
    /\ dispatch = "next_page"
    /\ Len(knobs) = NUM_POTS
    /\ page = 0
    /\ knobs[1].previous = readings[0]
    /\ Abs(knobs[1].previous - knobs[1].value) >= Threshold

\* the stored setting s names one of n installed programs
NamesInstalled(s, n) == s.name # None /\ s.py /\ s.name \in 0..(n - 1)

\* the current program C28 gives for the stored setting s and n installed
\* programs
CurrentOf(s, n) ==
    IF NamesInstalled(s, n) THEN s.name ELSE IF n > 0 THEN 0 ELSE None

\* the step is load_program of src/circuitpython: at startup, or on a
\* next-program request
LoadStep == code_py \/ load_next_program

\* C28: the current program is the stored setting when it names an installed
\* program and the first installed program otherwise; a next-program request
\* hands over the program after the current one, the first after the last;
\* with no program installed current and next are both None and loading
\* raises the error that ends in safe mode, handing nothing over
\* (SpecLoader, the loader of src/circuitpython).
C28_NextProgramFollowsCurrent ==
    [][(LoadStep /\ phase # "boot") =>
          LET s == get_setting(settings, stored)
              current == get_current_program(s, programs)
              next == get_next_program(s, programs)
          IN  /\ current = CurrentOf(s, programs)
              /\ programs = 0 =>
                    /\ current = None
                    /\ next = None
                    /\ phase' = "safe"
                    /\ next_code' = None
              /\ programs > 0 =>
                    /\ next = (IF current = programs - 1 THEN 0 ELSE current + 1)
                    /\ phase' = "reload"
                    /\ next_code' = IF phase = "code" THEN current ELSE next]_vars

\* C28 witness: a next-program request made while the stored setting names
\* the last of three programs hands over the first
C28_Witness ==
    /\ phase = "reload"
    /\ history # <<>>
    /\ programs = 3
    /\ stored = [name |-> 2, py |-> TRUE]
    /\ next_code = 0

\* the display has been written for the frequency
Shown == pitch.stage = "shown"

\* C21: the width of the deviation bar is an integer from 1 to half the
\* display width, the whole part of min(|cents| / 25, 1) times half the
\* display width and at least 1; for cents >= 0 its left edge is at the
\* centre of the display, for cents < 0 its right edge is; so the bar lies
\* inside the display and touches the centre line (SpecPitch).
C21_BarGeometry ==
    Shown =>
       LET half == DISPLAY_WIDTH \div 2
           full == 25 * CentUnit
           c == pitch.cents
       IN  /\ pitch.width \in 1..half
           /\ pitch.width = Max((half * Min(Abs(c), full)) \div full, 1)
           /\ c >= 0 => pitch.x = half
           /\ c < 0 => pitch.x + pitch.width = half
           /\ 0 <= pitch.x
           /\ pitch.x + pitch.width <= DISPLAY_WIDTH
           /\ pitch.x <= half
           /\ half <= pitch.x + pitch.width

\* C21 witness: a flat note is shown by a bar of part of the half width that
\* ends at the centre
C21_Witness ==
    /\ Shown
    /\ pitch.cents < 0
    /\ pitch.width > 1
    /\ pitch.width < DISPLAY_WIDTH \div 2
    /\ pitch.x = DISPLAY_WIDTH \div 2 - pitch.width

\* the chromatic scale as scientific pitch notation counts it, from C
FromC ==
    << "C", "C#/Db", "D", "D#/Eb", "E", "F", "F#/Gb", "G", "G#/Ab", "A",
       "A#/Bb", "B" >>

\* C29: the name shown for note number n is the entry (n - 21) mod 12 of the
\* table that starts at A and the octave is floor((n - 12) / 12); this is
\* scientific pitch notation: n is 12 * (octave + 1) plus the place of the
\* name in the scale from C, 69 is A4, 60 is C4, and the octave goes up by one
\* from B to C and nowhere else (SpecPitch).
C29_NoteNameAndOctave ==
    Shown =>
       LET n == pitch.notenum
       IN  /\ pitch.name = NOTES[((n - 21) % 12) + 1]
           /\ 12 * pitch.octave <= n - 12
           /\ n - 12 < 12 * (pitch.octave + 1)
           /\ pitch.name = FromC[(n % 12) + 1]
           /\ n = 12 * (pitch.octave + 1) + (n % 12)
           /\ n = 69 => (pitch.name = "A" /\ pitch.octave = 4)
           /\ n = 60 => (pitch.name = "C" /\ pitch.octave = 4)
           /\ note_octave(n + 1) = IF pitch.name = "B" THEN pitch.octave + 1
                                   ELSE pitch.octave

\* C29 witness: the B below middle C is shown as B of octave 3
C29_Witness ==
    /\ Shown
    /\ pitch.notenum = 59
    /\ pitch.name = "B"
    /\ pitch.octave = 3

\* C30: the cents shown are 1200 * log2(detected / target), the difference
\* between the pitch of the detected frequency and that of the nearest note
\* in cents, so that a frequency half-way between two notes shows 50 cents in
\* magnitude, below zero when flat and above when sharp (SpecPitch).
C30_CentsAreBase2 ==
    Shown =>
       LET off == pitch.p - 100 * (pitch.notenum - 69)
       IN  /\ pitch.cents = CentUnit * off
           /\ Abs(off) = 50 => Abs(pitch.cents) = 50 * CentUnit

\* C22: set_attribute returns for every group of targets; each target that
\* has the attribute has been given the value (moved by its share of the
\* offset when a positive offset comes with a float value), each target
\* without it is as it was, whatever the other targets of the group are; a
\* target that is not a list is a group of one (SpecBinding).
C22_FanOutSkipsTargetsWithoutAttribute ==
    binding.stage = "returned" =>
       LET before == IF binding.arg.is_list THEN binding.arg.items
                     ELSE << binding.arg.items >>
           after == binding.after
           n == Len(before)
           spread(k) == IF binding.is_float /\ binding.offset > 0
                          THEN (binding.offset * (2 * k - (n + 1))) \div 2
                          ELSE 0
       IN  /\ Len(after) = n
           /\ ~binding.arg.is_list => n = 1
           /\ \A k \in 1..n :
                 IF before[k].has
                   THEN /\ after[k].has
                        /\ after[k].attr = binding.value + spread(k)
                   ELSE after[k] = before[k]
           /\ binding.offset = 0 =>
                 \A k \in 1..n : before[k].has => after[k].attr = binding.value

\* C22 witness: of three targets the second lacks the attribute and is as it
\* was, the first and the third have been given the value
C22_Witness ==
    /\ binding.stage = "returned"
    /\ binding.arg.is_list
    /\ Len(binding.after) = 3
    /\ binding.offset = 0
    /\ ~binding.after[2].has
    /\ binding.after[2].attr = None
    /\ binding.after[1].attr = binding.value
    /\ binding.after[3].attr = binding.value

\* C31: a knob that has committed a reading since its last reset has its
\* previous marker on its stored value, and stays so under every reading; in
\* that state a reading is committed exactly when it differs from the stored
\* value by at least the threshold, above or below; the commit of a reading
\* puts marker and stored value on that reading, and no reading runs the
\* target setter more than once (SpecKnob).
C31_TrackingAbsorbingUntilReset ==
    [][Delivered =>
          /\ Len(knobs'[1].calls) <= 1
          /\ Committed =>
                /\ ~seeking'
                /\ knobs'[1].value = readings'[0]
                /\ knobs'[1].previous = knobs'[1].value
          /\ ~seeking =>
                /\ TheKnob.previous = TheKnob.value
                /\ ~seeking'
                /\ knobs'[1].previous = knobs'[1].value
                /\ Committed <=>
                      \/ readings'[0] >= TheKnob.value + Threshold
                      \/ readings'[0] <= TheKnob.value - Threshold]_vars

\* C31 witness: a knob that had committed a reading has just dropped a
\* reading one step under its stored value, and is still tracking
C31_Witness ==
    /\ ~seeking
    /\ readings[0] # None
    /\ readings[0] = TheKnob.value - 1
    /\ TheKnob.previous = TheKnob.value
    /\ TheKnob.calls = <<>>

\* the step is assign_knob: the knob list has grown by one
BindStep == Len(knobs') = Len(knobs) + 1

\* C32: after every step the target of every knob holds the mapped stored
\* value of the knob, the last value its callback delivered; assign_knob
\* runs the callback of the new knob once, which writes the bound attribute
\* clamped into the range back to the target, and leaves the knob reset; the
\* reset() of a page turn runs no callback (Spec).
C32_TargetHoldsStoredValue ==
    [][/\ \A j \in DOMAIN knobs' :
             knobs'[j].param = map_value(knobs'[j].value, knobs'[j].lo, knobs'[j].hi)
       /\ BindStep =>
             LET n == Len(knobs')
                 cfg == KnobConfig(n - 1)
                 x == IF cfg.x < cfg.lo * Scale THEN cfg.lo * Scale
                      ELSE IF cfg.x > cfg.hi * Scale THEN cfg.hi * Scale
                      ELSE cfg.x
             IN  /\ knobs'[n].calls = << x >>
                 /\ knobs'[n].param = x
                 /\ knobs'[n].previous = None
                 /\ \A j \in DOMAIN knobs : knobs'[j].calls = <<>>
       /\ dispatch' = "next_page" =>
             \A j \in DOMAIN knobs' : knobs'[j].calls = <<>>]_vars

\* C32 witness: a knob has just been bound to an attribute above its range,
\* and the callback has written the top of the range to the target
C32_Witness ==
    /\ Len(knobs) = 2
    /\ KnobConfig(1).x > KnobConfig(1).hi * Scale
    /\ knobs[2].calls = << KnobConfig(1).hi * Scale >>
    /\ knobs[2].param = KnobConfig(1).hi * Scale
    /\ knobs[2].value = Scale
    /\ knobs[2].previous = None

\* C33: in a program of src/circuitpython, while led has not been assigned
\* every update() leaves the LED at duty 0 when bypassed and at DUTY_MAX
\* otherwise; once led has been assigned update() leaves the LED as it is,
\* whatever the switch does, and no update() hands the LED over or takes it
\* back: only the start of another program's ZeroStomp restores the
\* automatic control (SpecLed).
C33_LedControlHandOver ==
    [][variant = "circuitpython" =>
          /\ (UpdateStep /\ stomp_led.control) =>
                /\ stomp_led'.control
                /\ stomp_led'.duty_cycle = IF bypassed(switch') THEN 0 ELSE DUTY_MAX
          /\ (UpdateStep /\ ~stomp_led.control) => stomp_led' = stomp_led
          /\ (~stomp_led.control /\ stomp_led'.control) => (reload /\ ~reload')]_vars

\* C33 witness: after led was assigned 1.0 a tick saw the switch turn to
\* bypass and left the LED fully on
C33_Witness ==
    /\ variant = "circuitpython"
    /\ ~stomp_led.control
    /\ switch.rose
    /\ bypassed(switch)
    /\ stomp_led.duty_cycle = DUTY_MAX

=============================================================================
